---- MODULE Spec2Model ----
(***************************************************************************)
(* Model of the two meta-tag inspection scripts:                           *)
(*   scripts/inspect_meta.py      inspect_meta(url)       "network" mode   *)
(*   scripts/inspect_meta_bs4.py  inspect_html(file_path) "file" mode      *)
(* A document is represented by the tree the parser builds from it: the    *)
(* meta elements in document order, each with its attribute mapping, and   *)
(* the first title element with its child strings.  Python's None is the   *)
(* empty tuple and a value v that is present is the one-tuple <<v>>.       *)
(***************************************************************************)
EXTENDS Integers, Sequences, FiniteSets, TLC

VARIABLES mode, env, pc, soup, idx, out, fault, gets, calls

vars == <<mode, env, pc, soup, idx, out, fault, gets, calls>>

(* ---------------------------- bounds ----------------------------------- *)

MaxMetas == 2
MaxCalls == 3

(* ------------------------- input domains ------------------------------- *)

None == <<>>
Some(v) == <<v>>

NameValues == {"", "author"}
PropertyValues == {"", "og:title"}
ContentValues == {"", "None", "Example"}

AttrOrder == <<"name", "property", "content">>

AttrValues(k) ==
    CASE k = "name" -> NameValues
      [] k = "property" -> PropertyValues
      [] k = "content" -> ContentValues

\* The attribute mappings a <meta> start tag can carry (Tag.attrs): a
\* function from the attribute names written in the tag to their values.
MetaElements ==
    UNION { [D -> NameValues \cup PropertyValues \cup ContentValues] :
            D \in SUBSET {"name", "property", "content"} }

WellTyped(a) == \A k \in DOMAIN a : a[k] \in AttrValues(k)

Metas == { a \in MetaElements : WellTyped(a) }

RECURSIVE SeqsUpTo(_, _)
SeqsUpTo(S, n) ==
    IF n = 0 THEN { <<>> }
    ELSE LET shorter == SeqsUpTo(S, n - 1)
         IN  shorter \cup { Append(s, x) : s \in { t \in shorter : Len(t) = n - 1 }, x \in S }

\* The first <title> element: None when the document has none, otherwise
\* the sequence of its child strings (empty for <title></title>).
Titles == { None, Some(<<>>), Some(<<"Hello">>) }

Docs == [ metas : SeqsUpTo(Metas, MaxMetas), title : Titles ]

EmptyDoc == [ metas |-> <<>>, title |-> None ]

StatusCodes == { 200, 404 }

\* What the outside world does with the request or the read.
NetworkEnvs ==
    [ raises : {FALSE}, e : {""}, status_code : StatusCodes, html : Docs ]
    \cup [ raises : {TRUE}, e : {"Name or service not known", "Connection refused"},
           status_code : {0}, html : {EmptyDoc} ]

FileEnvs ==
    [ raises : {FALSE}, e : {""}, status_code : {0}, html : Docs ]
    \cup [ raises : {TRUE}, e : {"No such file or directory", "Permission denied",
                                 "invalid start byte"},
           status_code : {0}, html : {EmptyDoc} ]

Envs(m) == IF m = "network" THEN NetworkEnvs ELSE FileEnvs

NoSoup == EmptyDoc

(* ----------------------- library operations ---------------------------- *)

\* str(x) inside an f-string
Str(x) == IF x = None THEN "None" ELSE x[1]

\* Python truthiness of an optional string
Truthy(x) == x # None /\ x[1] # ""

\* a or b
Or(a, b) == IF Truthy(a) THEN a ELSE b

\* Tag.get(key)
Get(tag, key) == IF key \in DOMAIN tag THEN Some(tag[key]) ELSE None

\* key in props
In(key, props) == key \in DOMAIN props

\* soup.find_all('meta')
find_all_meta(s) == s.metas

\* soup.title / soup.find('title')
find_title(s) == s.title

\* Tag.string: the single child string, None unless there is exactly one
TagString(children) == IF Len(children) = 1 THEN Some(children[1]) ELSE None

RECURSIVE Concat(_)
Concat(ss) == IF ss = <<>> THEN "" ELSE Head(ss) \o Concat(Tail(ss))

\* Tag.text: the concatenation of the child strings
TagText(children) == Some(Concat(children))

RECURSIVE JoinItems(_, _)
JoinItems(props, ks) ==
    IF ks = <<>> THEN ""
    ELSE LET k == Head(ks)
             rest == JoinItems(props, Tail(ks))
         IN  IF k \in DOMAIN props
             THEN "'" \o k \o "': '" \o props[k] \o "'"
                  \o (IF rest = "" THEN "" ELSE ", " \o rest)
             ELSE rest

\* f"{props}": the repr of the attribute dictionary
DictRepr(props) == "{" \o JoinItems(props, AttrOrder) \o "}"

Line(k, t) == [ kind |-> k, text |-> t ]

(* --------------------------- inspect_meta ------------------------------ *)

\* inspect_meta with response.raise_for_status() after the request.
inspect_meta_get_raise_for_status ==
    /\ mode = "network" /\ pc = "start"
    /\ ~env.raises
    /\ gets' = gets + 1
    /\ IF env.status_code >= 400
       THEN /\ out' = Append(out, Line("error", "Error: " \o ToString(env.status_code)))
            /\ pc' = "done"
            /\ soup' = soup
       ELSE /\ out' = Append(out, Line("status", "Status Code: " \o ToString(env.status_code)))
            /\ pc' = "header"
            /\ soup' = env.html
    /\ UNCHANGED <<mode, env, idx, fault, calls>>

inspect_meta_get ==
    /\ mode = "network" /\ pc = "start"
    /\ ~env.raises
    /\ gets' = gets + 1
    /\ out' = Append(out, Line("status", "Status Code: " \o ToString(env.status_code)))
    /\ soup' = env.html
    /\ pc' = "header"
    /\ UNCHANGED <<mode, env, idx, fault, calls>>

\* inspect_meta without its try/except: the exception leaves the function.
inspect_meta_uncaught ==
    /\ mode = "network" /\ pc = "start"
    /\ env.raises
    /\ gets' = gets + 1
    /\ fault' = TRUE
    /\ pc' = "done"
    /\ UNCHANGED <<mode, env, soup, idx, out, calls>>

inspect_meta_except ==
    /\ mode = "network" /\ pc = "start"
    /\ env.raises
    /\ gets' = gets + 1
    /\ out' = Append(out, Line("error", "Error: " \o env.e))
    /\ pc' = "done"
    /\ UNCHANGED <<mode, env, soup, idx, fault, calls>>

inspect_meta_header ==
    /\ mode = "network" /\ pc = "header"
    /\ out' = Append(out, Line("header", "\n--- Meta Tags in Head ---"))
    /\ idx' = 1
    /\ pc' = "loop"
    /\ UNCHANGED <<mode, env, soup, fault, gets, calls>>

\* The test with 'name' forgotten.
meta_selected_property_only(props) == In("property", props)

meta_selected(props) == In("property", props) \/ In("name", props)

inspect_meta_loop ==
    /\ mode = "network" /\ pc = "loop"
    /\ idx <= Len(find_all_meta(soup))
    /\ LET props == find_all_meta(soup)[idx]
       IN  out' = IF meta_selected(props)
                  THEN Append(out, Line("meta", DictRepr(props)))
                  ELSE out
    /\ idx' = idx + 1
    /\ UNCHANGED <<mode, env, pc, soup, fault, gets, calls>>

inspect_meta_title_header ==
    /\ mode = "network" /\ pc = "loop"
    /\ idx > Len(find_all_meta(soup))
    /\ out' = Append(out, Line("titlehdr", "\n--- Title ---"))
    /\ pc' = "title"
    /\ UNCHANGED <<mode, env, soup, idx, fault, gets, calls>>

meta_title_text(s) ==
    IF find_title(s) # None THEN Str(TagString(find_title(s)[1])) ELSE "No title tag"

inspect_meta_title ==
    /\ mode = "network" /\ pc = "title"
    /\ out' = Append(out, Line("title", meta_title_text(soup)))
    /\ pc' = "done"
    /\ UNCHANGED <<mode, env, soup, idx, fault, gets, calls>>

(* --------------------------- inspect_html ------------------------------ *)

inspect_html_read ==
    /\ mode = "file" /\ pc = "start"
    /\ ~env.raises
    /\ soup' = env.html
    /\ out' = Append(out, Line("header", "--- Meta Tags ---"))
    /\ idx' = 1
    /\ pc' = "loop"
    /\ UNCHANGED <<mode, env, fault, gets, calls>>

\* open()/read() raise and nothing in inspect_html or __main__ catches it:
\* the exception leaves the entry point and nothing is printed.
inspect_html_raise ==
    /\ mode = "file" /\ pc = "start"
    /\ env.raises
    /\ fault' = TRUE
    /\ pc' = "done"
    /\ UNCHANGED <<mode, env, soup, idx, out, gets, calls>>

\* The key with the fallback to 'property' forgotten.
html_name_only(tag) == Get(tag, "name")

html_name(tag) == Or(Get(tag, "name"), Get(tag, "property"))

\* tag.get('content', ''): a missing content attribute coerced to "".
html_content_default_empty(tag) == IF "content" \in DOMAIN tag THEN Some(tag["content"]) ELSE Some("")

html_content(tag) == Get(tag, "content")

html_line(tag) == Str(html_name(tag)) \o ": " \o Str(html_content(tag))

inspect_html_loop ==
    /\ mode = "file" /\ pc = "loop"
    /\ idx <= Len(find_all_meta(soup))
    /\ LET tag == find_all_meta(soup)[idx]
       IN  out' = IF Truthy(html_name(tag))
                  THEN Append(out, Line("meta", html_line(tag)))
                  ELSE out
    /\ idx' = idx + 1
    /\ UNCHANGED <<mode, env, pc, soup, fault, gets, calls>>

inspect_html_title_header ==
    /\ mode = "file" /\ pc = "loop"
    /\ idx > Len(find_all_meta(soup))
    /\ out' = Append(out, Line("titlehdr", "\n--- Title ---"))
    /\ pc' = "title"
    /\ UNCHANGED <<mode, env, soup, idx, fault, gets, calls>>

html_title_text(s) ==
    IF find_title(s) # None THEN Str(TagText(find_title(s)[1])) ELSE "No title found"

inspect_html_title ==
    /\ mode = "file" /\ pc = "title"
    /\ out' = Append(out, Line("title", html_title_text(soup)))
    /\ pc' = "done"
    /\ UNCHANGED <<mode, env, soup, idx, fault, gets, calls>>

(* ------------------------- one invocation ------------------------------ *)

Modes == { "network", "file" }

Init ==
    /\ mode \in Modes
    /\ env \in Envs(mode)
    /\ pc = "start"
    /\ soup = NoSoup
    /\ idx = 0
    /\ out = <<>>
    /\ fault = FALSE
    /\ gets = 0
    /\ calls = <<>>

Step ==
    \/ inspect_meta_get
    \/ inspect_meta_except
    \/ inspect_meta_header
    \/ inspect_meta_loop
    \/ inspect_meta_title_header
    \/ inspect_meta_title
    \/ inspect_html_read
    \/ inspect_html_raise
    \/ inspect_html_loop
    \/ inspect_html_title_header
    \/ inspect_html_title

Next == Step

Spec == Init /\ [][Next]_vars

(* ----------------------- repeated invocation --------------------------- *)

\* Entry into inspect_meta / inspect_html: every local of the function
\* (soup, the loop iterator, what this invocation has printed) starts fresh.
\* The emitted records kept in a module-level list that is never cleared.
CallKeepsOutput(m, e) ==
    /\ mode' = m
    /\ env' = e
    /\ pc' = "start"
    /\ soup' = NoSoup
    /\ idx' = 0
    /\ out' = out
    /\ fault' = FALSE
    /\ gets' = 0

Call(m, e) ==
    /\ mode' = m
    /\ env' = e
    /\ pc' = "start"
    /\ soup' = NoSoup
    /\ idx' = 0
    /\ out' = <<>>
    /\ fault' = FALSE
    /\ gets' = 0

RepeatDoc1 ==
    [ metas |-> << ("name" :> "author" @@ "content" :> "Example") >>,
      title |-> Some(<<"Hello">>) ]

RepeatDoc2 ==
    [ metas |-> << ("property" :> "og:title"), ("name" :> "") >>,
      title |-> None ]

RepeatDocs == { EmptyDoc, RepeatDoc1, RepeatDoc2 }

RepeatEnvs(m) ==
    IF m = "network"
    THEN [ raises : {FALSE}, e : {""}, status_code : {200}, html : RepeatDocs ]
         \cup [ raises : {TRUE}, e : {"Connection refused"},
                status_code : {0}, html : {EmptyDoc} ]
    ELSE [ raises : {FALSE}, e : {""}, status_code : {0}, html : RepeatDocs ]
         \cup [ raises : {TRUE}, e : {"Permission denied"},
                status_code : {0}, html : {EmptyDoc} ]

\* The finished invocation returns to its caller, which records what it
\* emitted and invokes an operation again.
Return ==
    /\ pc = "done"
    /\ Len(calls) < MaxCalls
    /\ calls' = Append(calls, [ mode |-> mode, env |-> env, out |-> out, fault |-> fault ])
    /\ \E m \in Modes : \E e \in RepeatEnvs(m) : Call(m, e)

InitRepeat ==
    /\ mode \in Modes
    /\ env \in RepeatEnvs(mode)
    /\ pc = "start"
    /\ soup = NoSoup
    /\ idx = 0
    /\ out = <<>>
    /\ fault = FALSE
    /\ gets = 0
    /\ calls = <<>>

NextRepeat == Step \/ Return

SpecRepeat == InitRepeat /\ [][NextRepeat]_vars

(* ============================ properties =============================== *)

Finished == pc = "done"

Obtained == ~env.raises

StartsWith(t, prefix) == Len(t) >= Len(prefix) /\ SubSeq(t, 1, Len(prefix)) = prefix

IsErrorLine(l) == l.kind = "error" /\ StartsWith(l.text, "Error:")

\* shape (b): exactly one Error line
ErrorShape(o) == Len(o) = 1 /\ IsErrorLine(o[1])

\* shape (a): [status,] header, meta*, title header, title
FullShape(m, o) ==
    LET first == IF m = "network" THEN 2 ELSE 1
        n == Len(o)
    IN  /\ n >= first + 2
        /\ m = "network" => o[1].kind = "status"
        /\ o[first].kind = "header"
        /\ \A i \in (first + 1)..(n - 2) : o[i].kind = "meta"
        /\ o[n - 1].kind = "titlehdr"
        /\ o[n].kind = "title"

MetaLines(o) == SelectSeq(o, LAMBDA l : l.kind = "meta")

Texts(ls) == [ i \in 1..Len(ls) |-> ls[i].text ]

HasNameOrProperty(tag) == "property" \in DOMAIN tag \/ "name" \in DOMAIN tag

HasNonEmptyNameOrProperty(tag) ==
    \/ "property" \in DOMAIN tag /\ tag["property"] # ""
    \/ "name" \in DOMAIN tag /\ tag["name"] # ""

TitleLine(o) == o[Len(o)].text

\* C1: in file mode a failure to read the file is caught inside the
\* operation and reported as one printed line beginning with "Error:";
\* the operation returns normally and no exception propagates.
C1_ReadFailureReported ==
    (mode = "file" /\ Finished /\ env.raises) => (~fault /\ ErrorShape(out))

\* C2: in network mode a failure of the GET request never propagates out of
\* inspect_meta: it is caught, one line beginning with "Error:" is printed,
\* the request is issued once and not retried, and the function returns.
C2_FetchFailureCaught ==
    (mode = "network" /\ env.raises) =>
        /\ ~fault
        /\ gets <= 1
        /\ Finished => (gets = 1 /\ ErrorShape(out) /\ out[1].text = "Error: " \o env.e)

C2_Witness == mode = "network" /\ env.raises /\ Finished /\ Len(out) = 1

\* The key the specification gives a meta element: property if present,
\* otherwise name.
PropertyFirstKey(tag) ==
    IF "property" \in DOMAIN tag THEN tag["property"] ELSE tag["name"]

\* C3: in file mode every printed meta line carries as its key the value of
\* the property attribute when the element has one, and the value of the
\* name attribute only when it has no property attribute.
C3_PropertyPreferred ==
    [][ (mode = "file" /\ pc = "loop" /\ Len(out') = Len(out) + 1
            /\ out'[Len(out')].kind = "meta")
        => out'[Len(out')].text
              = PropertyFirstKey(soup.metas[idx]) \o ": " \o Str(Get(soup.metas[idx], "content")) ]_vars

\* C4: every finished run has printed exactly one of the two shapes, the
\* full listing or a single Error line, and did not end in an unhandled fault.
C4_OneOfTwoShapes ==
    Finished => /\ ~fault
                /\ FullShape(mode, out) \/ ErrorShape(out)
                /\ ~(FullShape(mode, out) /\ ErrorShape(out))

\* C5 as stated: in file mode the printed meta lines are, in document
\* order, exactly the meta elements that have a property or a name
\* attribute.
C5_SkippedIffNeitherAttribute ==
    (mode = "file" /\ Finished /\ Obtained) =>
        /\ ~fault
        /\ FullShape(mode, out)
        /\ Texts(MetaLines(out))
             = [ i \in 1..Len(SelectSeq(env.html.metas, HasNameOrProperty)) |->
                   html_line(SelectSeq(env.html.metas, HasNameOrProperty)[i]) ]

\* C5 amended: in file mode the printed meta lines are, in document order
\* and without deduplication, exactly the meta elements whose name or
\* property attribute has a non-empty value; a document without meta
\* elements prints the header, no meta line and no error.
C5_SkippedIffNoNonEmptyKey ==
    (mode = "file" /\ Finished /\ Obtained) =>
        LET kept == SelectSeq(env.html.metas, HasNonEmptyNameOrProperty)
        IN  /\ ~fault
            /\ FullShape(mode, out)
            /\ Len(MetaLines(out)) = Len(kept)
            /\ \A i \in 1..Len(kept) :
                 MetaLines(out)[i].text
                   = (IF "name" \in DOMAIN kept[i] /\ kept[i]["name"] # ""
                      THEN kept[i]["name"] ELSE kept[i]["property"])
                     \o ": "
                     \o (IF "content" \in DOMAIN kept[i] THEN kept[i]["content"] ELSE "None")

\* two elements with the same key are both printed, and an element with an
\* empty name and no property is skipped
C5_Witness ==
    /\ mode = "file" /\ Finished /\ Obtained
    /\ Len(env.html.metas) = 2
    /\ DOMAIN env.html.metas[1] = {"name", "content"}
    /\ env.html.metas[1]["name"] = ""
    /\ HasNonEmptyNameOrProperty(env.html.metas[2])
    /\ Len(MetaLines(out)) = 1

\* C6: in network mode exactly the meta elements that have a property or a
\* name attribute, whatever its value, are printed, one line each in
\* document order, each line the element's complete attribute mapping
\* (two lines are equal only when the two mappings are); elements with
\* neither attribute print nothing.
C6_RawDumpByPresence ==
    (mode = "network" /\ Finished /\ Obtained) =>
        LET sel == SelectSeq(env.html.metas, HasNameOrProperty)
        IN  /\ Len(MetaLines(out)) = Len(sel)
            /\ \A i \in 1..Len(sel) : MetaLines(out)[i].text = DictRepr(sel[i])
            /\ \A i, j \in 1..Len(sel) :
                 MetaLines(out)[i].text = MetaLines(out)[j].text => sel[i] = sel[j]
            /\ out[1].kind = "status" /\ out[2].kind = "header"
            /\ out[2].text = "\n--- Meta Tags in Head ---"

\* an element with an empty name is printed and one with only content is not
C6_Witness ==
    /\ mode = "network" /\ Finished /\ Obtained
    /\ Len(env.html.metas) = 2
    /\ DOMAIN env.html.metas[1] = {"content"}
    /\ DOMAIN env.html.metas[2] = {"name"}
    /\ env.html.metas[2]["name"] = ""
    /\ Len(MetaLines(out)) = 1

\* C7: in both modes the line after the title header is the text content of
\* the first title element whenever the document has one, and is the mode's
\* no-title literal exactly when it has none; nothing fails either way.
C7_TitleTextOrLiteral ==
    (Finished /\ Obtained) =>
        LET literal == IF mode = "network" THEN "No title tag" ELSE "No title found"
            title == env.html.title
        IN  /\ ~fault
            /\ FullShape(mode, out)
            /\ title # None => TitleLine(out) = Concat(title[1])
            /\ (TitleLine(out) = literal) <=> (title = None)

\* The index in the output of the line printed for meta element i in file
\* mode, counting the header line.
FileLineOf(metas, i) ==
    1 + Cardinality({ j \in 1..i : HasNonEmptyNameOrProperty(metas[j]) })

SameKeyOmittedAndPresent(metas, i, j) ==
    /\ HasNonEmptyNameOrProperty(metas[i])
    /\ HasNonEmptyNameOrProperty(metas[j])
    /\ html_name(metas[i]) = html_name(metas[j])
    /\ "content" \notin DOMAIN metas[i]
    /\ "content" \in DOMAIN metas[j]

\* C8 as stated: in file mode, of two elements with the same key, one
\* without a content attribute and one with any content attribute value,
\* the printed lines differ.
C8_OmittedContentDistinct ==
    (mode = "file" /\ Finished /\ Obtained) =>
        \A i, j \in 1..Len(env.html.metas) :
            SameKeyOmittedAndPresent(env.html.metas, i, j) =>
                out[FileLineOf(env.html.metas, i)].text # out[FileLineOf(env.html.metas, j)].text

\* C8 amended: in file mode, of two elements with the same key, one
\* without a content attribute and one whose content attribute has a value
\* other than the text "None" (the empty string included), the printed
\* lines differ, and the line of the element without content ends in None.
C8_OmittedContentDistinctUnlessNoneText ==
    (mode = "file" /\ Finished /\ Obtained) =>
        \A i, j \in 1..Len(env.html.metas) :
            (SameKeyOmittedAndPresent(env.html.metas, i, j)
                /\ env.html.metas[j]["content"] # "None") =>
                /\ out[FileLineOf(env.html.metas, i)].text # out[FileLineOf(env.html.metas, j)].text
                /\ out[FileLineOf(env.html.metas, i)].text
                     = Str(html_name(env.html.metas[i])) \o ": None"

C8_Witness ==
    /\ mode = "file" /\ Finished /\ Obtained
    /\ Len(env.html.metas) = 2
    /\ SameKeyOmittedAndPresent(env.html.metas, 1, 2)
    /\ env.html.metas[2]["content"] = ""
    /\ out[2].text = "author: None"
    /\ out[3].text = "author: "

\* C9: in network mode a response with any status code is not a failure:
\* the run prints "Status Code: <n>" with the received code, then both
\* sections from the response body, and no Error line.
C9_AnyStatusIsListed ==
    (mode = "network" /\ Obtained) =>
        /\ ~fault
        /\ \A i \in 1..Len(out) : out[i].kind # "error"
        /\ pc # "start" => /\ out[1] = Line("status", "Status Code: " \o ToString(env.status_code))
                           /\ soup = env.html
        /\ Finished => /\ FullShape(mode, out)
                       /\ Len(MetaLines(out))
                            = Len(SelectSeq(env.html.metas, HasNameOrProperty))

C9_Witness ==
    /\ mode = "network" /\ Obtained /\ Finished
    /\ env.status_code = 404
    /\ out[1].text = "Status Code: 404"
    /\ Len(MetaLines(out)) = 2
    /\ env.html.title # None

\* C10: extraction has no cross-call state: two invocations in the same
\* mode on the same document emit the same records, whatever was invoked
\* before or between them.
C10_SameTextSameRecords ==
    \A i, j \in 1..Len(calls) :
        (/\ calls[i].mode = calls[j].mode
         /\ ~calls[i].env.raises /\ ~calls[j].env.raises
         /\ calls[i].env.html = calls[j].env.html) =>
            /\ MetaLines(calls[i].out) = MetaLines(calls[j].out)
            /\ calls[i].out = calls[j].out

\* the same document inspected twice with another document in between
C10_Witness ==
    /\ Len(calls) >= 3
    /\ calls[1].mode = calls[3].mode
    /\ ~calls[1].env.raises
    /\ calls[1].env = calls[3].env
    /\ calls[2].env.html # calls[1].env.html
    /\ ~calls[2].env.raises
    /\ Len(MetaLines(calls[1].out)) > 0
    /\ Len(MetaLines(calls[2].out)) > 0

====
